---------------------------- MODULE Spec2Model ----------------------------
(***************************************************************************)
(* A model of app.py, the Fidelity trade-history parser:                   *)
(*   parse_trade_data, get_trade_action, get_trade_summary,                *)
(*   write_trades_to_csv and main.                                         *)
(*                                                                         *)
(* Text is a sequence of one-character strings, so that strip, split,      *)
(* upper, substring search, strptime, strftime, float and repr are         *)
(* computed on characters rather than assumed.  A csv line is the sequence *)
(* of its cells; a blank line is the empty sequence, which is what         *)
(* csv.reader yields for it.                                               *)
(***************************************************************************)
EXTENDS Integers, Sequences, FiniteSets, TLC

VARIABLES
    fs,          \* the file system: path -> NoFile or the file's lines
    writable,    \* whether the output path can be opened for writing
    verbose,     \* args.verbose of the current run
    pc,          \* position of the current run of main
    trades,      \* parse_trade_data's list `trades`
    pos,         \* number of lines of the input consumed by the reader
    fieldnames,  \* csv.DictReader's fieldnames, once read
    raised,      \* the exception that left parse_trade_data, or NoExc
    summary,     \* the value returned by get_trade_summary, or None
    stdout,      \* what has been printed, in order
    exitCode,    \* the process's exit status, or None while running
    padYear,     \* whether this build's strftime pads '%Y' to four digits
    run,         \* "first", or how the caller started main again
    prev,        \* what the first run left behind (for comparing runs)
    actIn,       \* get_trade_action's argument        (SpecAction)
    actOut,      \* get_trade_action's result          (SpecAction)
    sumIn,       \* get_trade_summary's argument       (SpecSummary)
    sumOut       \* get_trade_summary's result         (SpecSummary)

vars == <<fs, writable, verbose, pc, trades, pos, fieldnames, raised,
          summary, stdout, exitCode, padYear, run, prev, actIn, actOut, sumIn, sumOut>>

\* the arguments and results of the functions called on their own
callVars == <<actIn, actOut, sumIn, sumOut>>

(***************************************************************************)
(* Bounds of the model.                                                    *)
(***************************************************************************)
\* data rows after the header in an input file
MaxRows == 2
\* data rows in an input file whose header or leading lines are unusual
MaxAltRows == 1
\* fragments concatenated into an action string given to get_trade_action
MaxFrags == 2
\* records in a list given directly to get_trade_summary
MaxRecs == 2

\* parse_trade_data skips this many leading lines: next(file), twice
SkipLines == 2

(***************************************************************************)
(* Python values.                                                          *)
(***************************************************************************)
\* Python's None: a value that no text, float or date equals
None == <<"None">>

\* 10^k, for the exponents a 32-bit integer allows
Pow10(k) == <<1, 10, 100, 1000, 10000, 100000, 1000000, 10000000,
              100000000, 1000000000>>[k + 1]

(***************************************************************************)
(* Text: str methods used by the program.                                  *)
(***************************************************************************)
LowerCase == <<"a","b","c","d","e","f","g","h","i","j","k","l","m",
               "n","o","p","q","r","s","t","u","v","w","x","y","z">>
UpperCase == <<"A","B","C","D","E","F","G","H","I","J","K","L","M",
               "N","O","P","Q","R","S","T","U","V","W","X","Y","Z">>
Digits == <<"0","1","2","3","4","5","6","7","8","9">>
Whitespace == {" ", "\t"}

IsDigit(c) == \E i \in 1..10 : Digits[i] = c
DigitVal(c) == (CHOOSE i \in 1..10 : Digits[i] = c) - 1

\* str.upper(), one character
UpperChar(c) ==
    IF \E i \in 1..26 : LowerCase[i] = c
    THEN UpperCase[CHOOSE i \in 1..26 : LowerCase[i] = c]
    ELSE c

\* str.upper()
Upper(s) == [i \in 1..Len(s) |-> UpperChar(s[i])]

\* `needle in s`
Contains(s, needle) ==
    \E i \in 1..(Len(s) - Len(needle) + 1) :
        SubSeq(s, i, i + Len(needle) - 1) = needle

\* str.strip()
StripKeep(s, keep) ==
    IF keep = {} THEN <<>>
    ELSE SubSeq(s, CHOOSE i \in keep : \A j \in keep : i <= j,
                   CHOOSE i \in keep : \A j \in keep : i >= j)

Strip(s) == StripKeep(s, {i \in 1..Len(s) : s[i] \notin Whitespace})

\* str.split(sep) for a one-character separator; at: where sep occurs
SplitCut(s, at, n) ==
    IF n = 0 THEN 0
    ELSE IF n > Cardinality(at) THEN Len(s) + 1
    ELSE CHOOSE i \in at : Cardinality({j \in at : j < i}) = n - 1

SplitAt(s, at) ==
    [n \in 1..(Cardinality(at) + 1) |->
        SubSeq(s, SplitCut(s, at, n - 1) + 1, SplitCut(s, at, n) - 1)]

Split(s, sep) == SplitAt(s, {i \in 1..Len(s) : s[i] = sep})

\* the value of a string of decimal digits
\* (of at most nine digits: the integers here are 32 bits wide)
PlaceVal(s, i) ==
    IF i <= Len(s) THEN DigitVal(s[i]) * Pow10(Len(s) - i) ELSE 0

ToNat(s) ==
    PlaceVal(s, 1) + PlaceVal(s, 2) + PlaceVal(s, 3) + PlaceVal(s, 4)
        + PlaceVal(s, 5) + PlaceVal(s, 6) + PlaceVal(s, 7) + PlaceVal(s, 8)
        + PlaceVal(s, 9)

\* the decimal digits of a natural number, no padding
NatStrW(n, w) == [i \in 1..w |-> Digits[((n \div Pow10(w - i)) % 10) + 1]]

NatStr(n) ==
    NatStrW(n, CHOOSE k \in 1..10 : /\ k = 10 \/ n < Pow10(k)
                                    /\ k = 1 \/ n >= Pow10(k - 1))

\* the decimal digits of n, zero-padded on the left to width w
PadText(t, w) == [i \in 1..(w - Len(t)) |-> "0"] \o t

Pad(n, w) == PadText(NatStr(n), w)

AllDigits(s) == \A i \in 1..Len(s) : IsDigit(s[i])

(***************************************************************************)
(* Exceptions.  A computation yields [ok |-> value] or [exc |-> name].     *)
(***************************************************************************)
NoExc == "none"
Ok(v) == [ok |-> v]
Exc(e) == [exc |-> e]
IsExc(r) == "exc" \in DOMAIN r

(***************************************************************************)
(* datetime.strptime(s, '%m/%d/%Y').date() and date.strftime('%m/%d/%Y').  *)
(* _strptime matches the whole string against the regular expression       *)
(*   (1[0-2]|0[1-9]|[1-9]) / (3[01]|[12]\d|0[1-9]|[1-9]| [1-9]) / \d\d\d\d *)
(* and datetime then rejects a day the month does not have and the year 0. *)
(***************************************************************************)
\* datetime.date(year, month, day)
Date(y, m, d) == <<"date", y, m, d>>
Year(date) == date[2]
Month(date) == date[3]
Day(date) == date[4]

MonthForm(p) ==
    /\ Len(p) \in {1, 2}
    /\ AllDigits(p)
    /\ ToNat(p) \in 1..12

DayForm(p) ==
    \/ /\ Len(p) \in {1, 2}
       /\ AllDigits(p)
       /\ ToNat(p) \in 1..31
    \/ /\ Len(p) = 2
       /\ p[1] = " "
       /\ IsDigit(p[2])
       /\ DigitVal(p[2]) >= 1

YearForm(p) == Len(p) = 4 /\ AllDigits(p)

IsLeap(y) == (y % 4 = 0) /\ ((y % 100 # 0) \/ (y % 400 = 0))

DaysInMonth(y, m) ==
    IF m = 2 THEN (IF IsLeap(y) THEN 29 ELSE 28)
    ELSE IF m \in {4, 6, 9, 11} THEN 30 ELSE 31

\* datetime(year, month, day): ValueError for the year 0 and for a day the
\* month does not have
DateOrError(y, m, d) ==
    IF y >= 1 /\ d <= DaysInMonth(y, m) THEN Ok(Date(y, m, d))
    ELSE Exc("ValueError")

StrptimeParts(parts) ==
    IF Len(parts) = 3 /\ MonthForm(parts[1]) /\ DayForm(parts[2])
                      /\ YearForm(parts[3])
    THEN DateOrError(ToNat(parts[3]), ToNat(parts[1]), ToNat(Strip(parts[2])))
    ELSE Exc("ValueError")

strptime(s) == StrptimeParts(Split(s, "/"))

\* '%Y' is the C library's: glibc prints the year unpadded, other builds
\* pad it to four digits.  pad is the build's choice.
strftime(date, pad) ==
    Pad(Month(date), 2) \o <<"/">> \o Pad(Day(date), 2) \o <<"/">>
        \o (IF pad THEN Pad(Year(date), 4) ELSE NatStr(Year(date)))

(***************************************************************************)
(* float(s), abs and repr, on plain decimal literals: optional blanks,     *)
(* an optional sign, digits with an optional point.  A float is its sign  *)
(* bit and the decimal num / 10^exp, with exp the least possible.          *)
(*  Exponent forms, inf and nan are not in the         *)
(* alphabet of the inputs drawn here.                                      *)
(***************************************************************************)
Float(neg, num, exp) == <<"float", neg, num, exp>>
Neg(f) == f[2]
Num(f) == f[3]
Exp(f) == f[4]

\* the same value with the trailing zeros of the fraction dropped
DropZeros(f, z) == Float(Neg(f), Num(f) \div Pow10(z), Exp(f) - z)

Normal(f) ==
    DropZeros(f, CHOOSE k \in 0..Exp(f) :
                     /\ Num(f) % Pow10(k) = 0
                     /\ \A j \in (k + 1)..Exp(f) : Num(f) % Pow10(j) # 0)

\* the digits after the point, if there is a point
Fraction(ps) == IF Len(ps) = 2 THEN ps[2] ELSE <<>>

\* the digits before and after the point, already split
FloatParts(neg, ps) ==
    IF /\ Len(ps) \in {1, 2}
       /\ \A i \in 1..Len(ps) : AllDigits(ps[i])
       /\ \E i \in 1..Len(ps) : ps[i] # <<>>
    THEN Ok(Normal(Float(neg, ToNat(ps[1] \o Fraction(ps)),
                         Len(Fraction(ps)))))
    ELSE Exc("ValueError")

\* the text with the blanks around it gone
FloatStripped(t) ==
    IF t = <<>> THEN Exc("ValueError")
    ELSE FloatParts(t[1] = "-",
                    Split(IF t[1] \in {"-", "+"} THEN Tail(t) ELSE t, "."))

float(s) == FloatStripped(Strip(s))

abs(f) == Float(FALSE, Num(f), Exp(f))

\* repr(float): what csv.writer writes for a float
repr(f) ==
    (IF Neg(f) THEN <<"-">> ELSE <<>>)
        \o NatStr(Num(f) \div Pow10(Exp(f))) \o <<".">>
        \o (IF Exp(f) = 0 THEN <<"0">>
            ELSE Pad(Num(f) % Pow10(Exp(f)), Exp(f)))

(***************************************************************************)
(* get_trade_action                                                        *)
(***************************************************************************)
BOUGHT == <<"B","O","U","G","H","T">>
SOLD == <<"S","O","L","D">>
CONVERSION == <<"C","O","N","V","E","R","S","I","O","N">>
Bought == <<"B","o","u","g","h","t">>
Sold == <<"S","o","l","d">>
Conversion == <<"C","o","n","v","e","r","s","i","o","n">>

\* a slip in the order of the tests: SOLD tried before BOUGHT
NormalizeUpperSoldFirst(a) ==
    IF Contains(a, SOLD) THEN Sold
    ELSE IF Contains(a, BOUGHT) THEN Bought
    ELSE IF Contains(a, CONVERSION) THEN Conversion
    ELSE a

\* the chain of tests on the upper-cased action
NormalizeUpper(a) ==
    IF Contains(a, BOUGHT) THEN Bought
    ELSE IF Contains(a, SOLD) THEN Sold
    ELSE IF Contains(a, CONVERSION) THEN Conversion
    ELSE a

get_trade_action(action) == NormalizeUpper(Upper(action))

(***************************************************************************)
(* The columns parse_trade_data reads, by name, and the keys of a trade    *)
(* dictionary in insertion order.                                          *)
(***************************************************************************)
ColRunDate == <<"R","u","n"," ","D","a","t","e">>
ColAction == <<"A","c","t","i","o","n">>
ColSymbol == <<"S","y","m","b","o","l">>
ColDescription == <<"D","e","s","c","r","i","p","t","i","o","n">>
ColType == <<"T","y","p","e">>
ColQuantity == <<"Q","u","a","n","t","i","t","y">>
ColPrice == <<"P","r","i","c","e"," ","(","$",")">>
ColAmount == <<"A","m","o","u","n","t"," ","(","$",")">>
ColSettlementDate == <<"S","e","t","t","l","e","m","e","n","t"," ","D","a","t","e">>

\* the keys of trade_dict, in the order the dict literal inserts them
Keys == <<"run_date", "run_month", "run_year", "action", "symbol", "description", "type", "quantity", "price", "amount", "settlement_date">>

\* a key as the text csv.DictWriter writes in the header row
KeyText(k) ==
    CASE k = "run_date" -> <<"r","u","n","_","d","a","t","e">>
      [] k = "run_month" -> <<"r","u","n","_","m","o","n","t","h">>
      [] k = "run_year" -> <<"r","u","n","_","y","e","a","r">>
      [] k = "action" -> <<"a","c","t","i","o","n">>
      [] k = "symbol" -> <<"s","y","m","b","o","l">>
      [] k = "description" -> <<"d","e","s","c","r","i","p","t","i","o","n">>
      [] k = "type" -> <<"t","y","p","e">>
      [] k = "quantity" -> <<"q","u","a","n","t","i","t","y">>
      [] k = "price" -> <<"p","r","i","c","e">>
      [] k = "amount" -> <<"a","m","o","u","n","t">>
      [] k = "settlement_date" -> <<"s","e","t","t","l","e","m","e","n","t","_","d","a","t","e">>

(***************************************************************************)
(* csv.DictReader: a row as a dict keyed by the header's names.            *)
(*   d = dict(zip(fieldnames, row)); a short row's missing keys get        *)
(*   restval (None); a long row's extra cells go under restkey (None).     *)
(***************************************************************************)
\* row[col] of the dict DictReader builds: KeyError when the header has no
\* such name, None when the row is too short to reach the column
\* (at: where the header has the name; dict(zip(...)) keeps the last)
RowGetAt(row, at) ==
    IF at = {} THEN Exc("KeyError")
    ELSE IF \E i \in at : i > Len(row) THEN Ok(None)
    ELSE Ok(row[CHOOSE i \in at : \A j \in at : j <= i])

RowGet(names, row, col) ==
    RowGetAt(row, {i \in 1..Len(names) : names[i] = col})

\* c.strip() for a looked-up cell c: AttributeError on None
StripGot(c) ==
    IF IsExc(c) THEN c
    ELSE IF c.ok = None THEN Exc("AttributeError")
    ELSE Ok(Strip(c.ok))

\* row[col].strip()
StripCell(names, row, col) == StripGot(RowGet(names, row, col))

\* the first exception of a sequence of outcomes evaluated left to right
FirstExc(rs) ==
    IF \A i \in 1..Len(rs) : ~IsExc(rs[i]) THEN NoExc
    ELSE rs[CHOOSE i \in 1..Len(rs) :
                /\ IsExc(rs[i])
                /\ \A j \in 1..(i - 1) : ~IsExc(rs[j])].exc

\* get_trade_action(c) for a looked-up cell c: None.upper() is an
\* AttributeError
ActionGot(c) ==
    IF IsExc(c) THEN c
    ELSE IF c.ok = None THEN Exc("AttributeError")
    ELSE Ok(get_trade_action(c.ok))

\* get_trade_action(row['Action'])
ActionOf(names, row) == ActionGot(RowGet(names, row, ColAction))

\* float(c) if c.strip() else None, for a looked-up cell c
FloatGot(c) ==
    IF IsExc(c) THEN c
    ELSE IF c.ok = None THEN Exc("AttributeError")
    ELSE IF Strip(c.ok) = <<>> THEN Ok(None)
    ELSE float(c.ok)

\* float(row[col]) if row[col].strip() else None
FloatOf(names, row, col) == FloatGot(RowGet(names, row, col))

\* abs(f) for a float f that may be None or an exception in flight
AbsGot(f) == IF IsExc(f) \/ f.ok = None THEN f ELSE Ok(abs(f.ok))

\* a slip: a blank cell read as 0.0
ZeroDefault(f) == IF IsExc(f) \/ f.ok # None THEN f ELSE Ok(Float(FALSE, 0, 0))

AbsFloatOfZeroDefault(names, row, col) ==
    ZeroDefault(AbsGot(FloatOf(names, row, col)))

\* abs(float(row[col])) if row[col].strip() else None
AbsFloatOf(names, row, col) == AbsGot(FloatOf(names, row, col))

\* a slip: the price made absolute like quantity and amount
PriceOfAbs(names, row) == AbsFloatOf(names, row, ColPrice)

\* float(row['Price ($)']) if row['Price ($)'].strip() else None
PriceOf(names, row) == FloatOf(names, row, ColPrice)

\* strptime(c.strip(), '%m/%d/%Y').date() if c.strip() else None
SettlementGot(c) ==
    IF IsExc(c) THEN c
    ELSE IF c.ok = <<>> THEN Ok(None)
    ELSE strptime(c.ok)

SettlementOf(names, row) ==
    SettlementGot(StripCell(names, row, ColSettlementDate))

(***************************************************************************)
(* The body of the for loop of parse_trade_data, for one row:              *)
(*   [do |-> "append", trade |-> t]   the row became a record              *)
(*   [do |-> "break"]                 the loop ends, trades is returned    *)
(*   [do |-> "raise", exc |-> e]      e leaves parse_trade_data            *)
(***************************************************************************)
\* the exceptions the except clause of the loop body catches
Caught == {"ValueError", "KeyError"}

\* except (ValueError, KeyError): break
OnException(e) ==
    IF e \in Caught THEN [do |-> "break"] ELSE [do |-> "raise", exc |-> e]

\* trade_dict, once every value of the dict literal is there
TradeDict(rd, act, sym, desc, typ, qty, prc, amt, sd) ==
    [run_date        |-> rd,
     run_month       |-> Month(rd),
     run_year        |-> Year(rd),
     action          |-> act,
     symbol          |-> sym,
     description     |-> desc,
     type            |-> typ,
     quantity        |-> qty,
     price           |-> prc,
     amount          |-> amt,
     settlement_date |-> sd]

\* the dict literal: e is the first exception its values raise, if any
Append1(e, rd, act, sym, desc, typ, qty, prc, amt, sd) ==
    IF e = NoExc
    THEN [do |-> "append",
          trade |-> TradeDict(rd.ok, act.ok, sym.ok, desc.ok, typ.ok,
                              qty.ok, prc.ok, amt.ok, sd.ok)]
    ELSE OnException(e)

\* the values of the dict literal in the order they are evaluated:
\* run_date, run_month and run_year each parse the date
Coerce(rd, act, sym, desc, typ, qty, prc, amt, sd) ==
    Append1(FirstExc(<<rd, rd, rd, act, sym, desc, typ, qty, prc, amt, sd>>),
            rd, act, sym, desc, typ, qty, prc, amt, sd)

\* ds: row['Run Date'].strip()
RowStepDated(names, row, ds) ==
    IF IsExc(ds) THEN OnException(ds.exc)
    ELSE IF ds.ok = <<>> \/ Len(Split(ds.ok, "/")) # 3 THEN [do |-> "break"]
    ELSE Coerce(strptime(ds.ok),
                ActionOf(names, row),
                StripCell(names, row, ColSymbol),
                StripCell(names, row, ColDescription),
                StripCell(names, row, ColType),
                AbsFloatOf(names, row, ColQuantity),
                PriceOf(names, row),
                AbsFloatOf(names, row, ColAmount),
                SettlementOf(names, row))

RowStep(names, row) ==
    RowStepDated(names, row, StripCell(names, row, ColRunDate))

(***************************************************************************)
(* get_trade_summary                                                       *)
(***************************************************************************)
\* sum(1 for trade in trades if kw in trade['action'].upper())
CountAction(ts, kw) ==
    Cardinality({i \in 1..Len(ts) : Contains(Upper(ts[i].action), kw)})

\* a slip: the distinct symbols counted with their repetitions
get_trade_summary_no_set(ts) ==
    [total_trades      |-> Len(ts),
     total_buy_trades  |-> CountAction(ts, BOUGHT),
     total_sell_trades |-> CountAction(ts, SOLD),
     unique_symbols    |-> Len(ts)]

get_trade_summary(ts) ==
    [total_trades      |-> Len(ts),
     total_buy_trades  |-> CountAction(ts, BOUGHT),
     total_sell_trades |-> CountAction(ts, SOLD),
     unique_symbols    |-> Cardinality({ts[i].symbol : i \in 1..Len(ts)})]

(***************************************************************************)
(* write_trades_to_csv                                                     *)
(***************************************************************************)
\* what csv.writer writes for one value of trade_row
CsvCell(k, t, pad) ==
    CASE k = "run_date" -> strftime(t.run_date, pad)
      [] k = "run_month" -> NatStr(t.run_month)
      [] k = "run_year" -> NatStr(t.run_year)
      [] k \in {"action", "symbol", "description", "type"} -> t[k]
      [] k \in {"quantity", "price", "amount"} ->
            IF t[k] = None THEN <<>> ELSE repr(t[k])
      [] k = "settlement_date" ->
            IF t.settlement_date = None THEN <<>>
            ELSE strftime(t.settlement_date, pad)

\* a change that would let the parser read the file back: the header
\* written with the names of the columns the parser looks up
HeaderRowInputNames(ts) ==
    <<ColRunDate, KeyText("run_month"), KeyText("run_year"), ColAction,
      ColSymbol, ColDescription, ColType, ColQuantity, ColPrice, ColAmount,
      ColSettlementDate>>

\* fieldnames = list(trades[0].keys()); writer.writeheader()
HeaderRow(ts) == [i \in 1..Len(Keys) |-> KeyText(Keys[i])]

\* writer.writerow(trade_row) for every trade
DataRows(ts, pad) ==
    [n \in 1..Len(ts) |-> [i \in 1..Len(Keys) |-> CsvCell(Keys[i], ts[n], pad)]]

\* the lines of the file write_trades_to_csv leaves behind
Written(ts, pad) == <<HeaderRow(ts)>> \o DataRows(ts, pad)

\* the caller's list after the call: each row is formatted in trade.copy()
TradesAfterWrite(ts, pad) == ts

(***************************************************************************)
(* Inputs: the files main is run on.                                       *)
(***************************************************************************)
\* a path of the file system: whether a file is there, and its lines
File(lines) == [exists |-> TRUE, lines |-> lines]
NoFile == [exists |-> FALSE, lines |-> <<>>]

TextDescription == <<" ","A","P","P","L","E"," ","I","N","C">>
TextType == <<"C","a","s","h">>

MkRow(date, action, symbol, qty, price, amount, settle) ==
    <<date, action, symbol, TextDescription, TextType, qty, price, amount, settle>>

\* a purchase, every cell filled, a negative amount
RowBuy ==
    MkRow(<<"0","1","/","0","2","/","2","0","2","4">>,
          <<" ","Y","O","U"," ","B","O","U","G","H","T"," ","A","P","P","L","E">>,
          <<" ","A","A","P","L"," ">>,
          <<"1","0">>,
          <<"1",".","5">>,
          <<"-","1","5",".","0","0">>,
          <<"0","1","/","0","4","/","2","0","2","4">>)
\* a sale: short date forms, negative quantity and price, blank amount and settlement
RowSell ==
    MkRow(<<"1","/","5","/","2","0","2","4">>,
          <<"y","o","u"," ","s","o","l","d">>,
          <<"M","S","F","T">>,
          <<"-","2">>,
          <<"-","0",".","2","5">>,
          <<" ">>,
          <<>>)
\* another action, a year below 1000, blank quantity and price
RowDiv ==
    MkRow(<<"1","2","/","3","1","/","0","9","9","9">>,
          <<"D","i","v","i","d","e","n","d">>,
          <<"A","A","P","L">>,
          <<>>,
          <<>>,
          <<"3">>,
          <<>>)
\* three parts but no date
RowBadDate ==
    MkRow(<<"1","3","/","4","0","/","2","0","2","4">>,
          <<"Y","O","U"," ","B","O","U","G","H","T">>,
          <<"A","A","P","L">>,
          <<"1">>,
          <<"1">>,
          <<"1">>,
          <<>>)
\* a quantity that is no number
RowBadNum ==
    MkRow(<<"0","1","/","0","2","/","2","0","2","4">>,
          <<"Y","O","U"," ","B","O","U","G","H","T">>,
          <<"A","A","P","L">>,
          <<"x">>,
          <<"1">>,
          <<"1">>,
          <<>>)
\* a settlement date in another format
RowBadSettle ==
    MkRow(<<"0","1","/","0","2","/","2","0","2","4">>,
          <<"Y","O","U"," ","S","O","L","D">>,
          <<"A","A","P","L">>,
          <<"1">>,
          <<"1">>,
          <<"1">>,
          <<"2","0","2","4","-","0","1","-","0","4">>)
\* a blank Run Date
RowNoDate ==
    MkRow(<<" ">>,
          <<"Y","O","U"," ","B","O","U","G","H","T">>,
          <<"A","A","P","L">>,
          <<"1">>,
          <<"1">>,
          <<"1">>,
          <<>>)
\* the footer of the export: free text in a single cell
RowDisclaimer == <<<<"D","i","s","c","l","a","i","m","e","r"," ","t","e","x","t">>>>
\* a blank line
RowBlank == <<>>
\* a row cut short after a good date
RowShort == <<<<"0","1","/","0","2","/","2","0","2","4">>, <<"Y","O","U"," ","B","O","U","G","H","T">>>>
\* a row with a cell more than the header has
RowLong == RowBuy \o <<<<"e","x","t","r","a">>>>

RowPool == {RowBuy, RowSell, RowDiv, RowBadDate, RowBadNum, RowBadSettle,
            RowNoDate, RowDisclaimer, RowBlank, RowShort}
SmallPool == {RowLong, RowSell, RowDisclaimer}

\* the header of the export, and headers that differ from it
StdHeader == <<ColRunDate, ColAction, ColSymbol, ColDescription, ColType,
               ColQuantity, ColPrice, ColAmount, ColSettlementDate>>
HeaderKinds == {"std", "moved", "noqty", "blank"}
HeaderOf(kind) ==
    CASE kind = "std" -> StdHeader
      [] kind = "moved" -> <<ColSymbol>> \o SubSeq(StdHeader, 1, 2)
                              \o SubSeq(StdHeader, 4, 9)
      [] kind = "noqty" -> SubSeq(StdHeader, 1, 5) \o SubSeq(StdHeader, 7, 9)
      [] kind = "blank" -> <<>>

\* a row of the pools laid out under a header of the given kind
Fit(kind, row) ==
    CASE kind = "moved" /\ Len(row) >= 9 ->
            <<row[3]>> \o SubSeq(row, 1, 2) \o SubSeq(row, 4, Len(row))
      [] kind = "noqty" /\ Len(row) >= 9 ->
            SubSeq(row, 1, 5) \o SubSeq(row, 7, Len(row))
      [] OTHER -> row

RowsUpTo(pool, n) == UNION {[1..k -> pool] : k \in 0..n}

\* the two lines the export starts with, and two lines that look like data
Blank2 == <<RowBlank, RowBlank>>
Preambles == {Blank2, <<StdHeader, RowBuy>>}

Files ==
    {Blank2 \o <<StdHeader>> \o rs : rs \in RowsUpTo(RowPool, MaxRows)}
    \cup {pre \o <<HeaderOf(k)>> \o [i \in 1..Len(rs) |-> Fit(k, rs[i])] :
            pre \in Preambles, k \in HeaderKinds,
            rs \in RowsUpTo(SmallPool, MaxAltRows)}
    \cup {<<>>, <<RowBlank>>, Blank2}

\* what the output path may hold before the first run
Stale == << <<<<"o","l","d">>>> >>

(***************************************************************************)
(* The program: main, with parse_trade_data and write_trades_to_csv        *)
(* stepped through, and the process started again by the caller.           *)
(***************************************************************************)
\* csv.DictReader before its header is read
NotRead == [read |-> FALSE, names |-> <<>>]

Fresh ==
    /\ pc = "start"
    /\ trades = <<>>
    /\ pos = 0
    /\ fieldnames = NotRead
    /\ raised = NoExc
    /\ summary = None
    /\ stdout = <<>>
    /\ exitCode = None

Idle ==
    /\ actIn = <<>> /\ actOut = None
    /\ sumIn = <<>> /\ sumOut = None

Init ==
    /\ fs \in {[in |-> f, out |-> o] :
                  f \in {File(ls) : ls \in Files} \cup {NoFile},
                  o \in {NoFile, File(Stale)}}
    /\ writable \in BOOLEAN
    /\ verbose \in BOOLEAN
    /\ padYear \in BOOLEAN
    /\ run = "first"
    /\ prev = None
    /\ Fresh
    /\ Idle

\* if args.verbose: print(f"Reading from {args.input_file}")
MainStart ==
    /\ pc = "start"
    /\ stdout' = IF verbose THEN Append(stdout, [ev |-> "reading"]) ELSE stdout
    /\ pc' = "open"
    /\ UNCHANGED callVars
    /\ UNCHANGED <<fs, writable, verbose, trades, pos, fieldnames, raised,
                   summary, exitCode, padYear, run, prev>>

\* trades = []; with open(file_path, 'r', encoding='utf-8') as file
ParseOpen ==
    /\ pc = "open"
    /\ fs.in.exists
    /\ trades' = <<>>
    /\ pos' = 0
    /\ pc' = "skip"
    /\ UNCHANGED callVars
    /\ UNCHANGED <<fs, writable, verbose, fieldnames, raised, summary, stdout,
                   exitCode, padYear, run, prev>>

ParseOpenNotFound ==
    /\ pc = "open"
    /\ ~fs.in.exists
    /\ raised' = "FileNotFoundError"
    /\ pc' = "except"
    /\ UNCHANGED callVars
    /\ UNCHANGED <<fs, writable, verbose, trades, pos, fieldnames, summary,
                   stdout, exitCode, padYear, run, prev>>

\* next(file), once for each of the two leading lines
ParseSkipLine ==
    /\ pc = "skip"
    /\ pos < Len(fs.in.lines)
    /\ pos' = pos + 1
    /\ pc' = IF pos' = SkipLines THEN "rows" ELSE "skip"
    /\ UNCHANGED callVars
    /\ UNCHANGED <<fs, writable, verbose, trades, fieldnames, raised, summary,
                   stdout, exitCode, padYear, run, prev>>

\* next(file) on a file that has no line left
ParseSkipStop ==
    /\ pc = "skip"
    /\ pos >= Len(fs.in.lines)
    /\ raised' = "StopIteration"
    /\ pc' = "except"
    /\ UNCHANGED callVars
    /\ UNCHANGED <<fs, writable, verbose, trades, pos, fieldnames, summary,
                   stdout, exitCode, padYear, run, prev>>

\* csv.DictReader.fieldnames: the first line read through the reader, if any
NamesNow ==
    IF fieldnames.read THEN fieldnames
    ELSE IF pos < Len(fs.in.lines)
         THEN [read |-> TRUE, names |-> fs.in.lines[pos + 1]]
    ELSE NotRead

PosAfterNames ==
    IF ~fieldnames.read /\ pos < Len(fs.in.lines) THEN pos + 1 ELSE pos

\* csv.DictReader.__next__: the index of the next line that is not blank
\* (`while row == []: row = next(self.reader)`), 0 when there is none
NextRowAt ==
    LET later == {k \in (PosAfterNames + 1)..Len(fs.in.lines) : fs.in.lines[k] # <<>>}
    IN  IF later = {} THEN 0
        ELSE CHOOSE k \in later : \A j \in later : k <= j

\* the loop body's outcome for the row the reader yields next
StepNow == RowStep(NamesNow.names, fs.in.lines[NextRowAt])

\* for row in csv_reader: the reader is exhausted, return trades
ParseRowsEnd ==
    /\ pc = "rows"
    /\ NextRowAt = 0
    /\ fieldnames' = NamesNow
    /\ pos' = Len(fs.in.lines)
    /\ pc' = "parsed"
    /\ UNCHANGED callVars
    /\ UNCHANGED <<fs, writable, verbose, trades, raised, summary, stdout,
                   exitCode, padYear, run, prev>>

\* trades.append(trade_dict)
ParseRowAppend ==
    /\ pc = "rows"
    /\ NextRowAt # 0
    /\ StepNow.do = "append"
    /\ trades' = Append(trades, StepNow.trade)
    /\ fieldnames' = NamesNow
    /\ pos' = NextRowAt
    /\ UNCHANGED callVars
    /\ UNCHANGED <<fs, writable, verbose, pc, raised, summary, stdout,
                   exitCode, padYear, run, prev>>

\* break, from the date test or from the except clause; return trades
ParseRowBreak ==
    /\ pc = "rows"
    /\ NextRowAt # 0
    /\ StepNow.do = "break"
    /\ fieldnames' = NamesNow
    /\ pos' = NextRowAt
    /\ pc' = "parsed"
    /\ UNCHANGED callVars
    /\ UNCHANGED <<fs, writable, verbose, trades, raised, summary, stdout,
                   exitCode, padYear, run, prev>>

\* an exception the except clause does not name leaves parse_trade_data
ParseRowRaise ==
    /\ pc = "rows"
    /\ NextRowAt # 0
    /\ StepNow.do = "raise"
    /\ raised' = StepNow.exc
    /\ fieldnames' = NamesNow
    /\ pos' = NextRowAt
    /\ pc' = "except"
    /\ UNCHANGED callVars
    /\ UNCHANGED <<fs, writable, verbose, trades, summary, stdout,
                   exitCode, padYear, run, prev>>

\* a slip: the summary printed only under -v
MainSummaryIfVerbose ==
    /\ pc = "parsed"
    /\ summary' = get_trade_summary(trades)
    /\ stdout' = IF verbose
                 THEN Append(stdout, [ev |-> "summary", val |-> summary'])
                 ELSE stdout
    /\ pc' = "found"
    /\ UNCHANGED callVars
    /\ UNCHANGED <<fs, writable, verbose, trades, pos, fieldnames, raised,
                   exitCode, padYear, run, prev>>

\* summary = get_trade_summary(trade_input), printed key by key
MainSummary ==
    /\ pc = "parsed"
    /\ summary' = get_trade_summary(trades)
    /\ stdout' = Append(stdout, [ev |-> "summary", val |-> summary'])
    /\ pc' = "found"
    /\ UNCHANGED callVars
    /\ UNCHANGED <<fs, writable, verbose, trades, pos, fieldnames, raised,
                   exitCode, padYear, run, prev>>

\* if args.verbose: print(f"Found {len(trade_input)} trades")
MainFound ==
    /\ pc = "found"
    /\ stdout' = IF verbose
                 THEN Append(stdout, [ev |-> "found", n |-> Len(trades)])
                 ELSE stdout
    /\ pc' = "write"
    /\ UNCHANGED callVars
    /\ UNCHANGED <<fs, writable, verbose, trades, pos, fieldnames, raised,
                   summary, exitCode, padYear, run, prev>>

\* write_trades_to_csv: if not trades: print(...); return.  main returns.
WriteNoTrades ==
    /\ pc = "write"
    /\ trades = <<>>
    /\ stdout' = Append(stdout, [ev |-> "no_trades"])
    /\ exitCode' = 0
    /\ pc' = "done"
    /\ UNCHANGED callVars
    /\ UNCHANGED <<fs, writable, verbose, trades, pos, fieldnames, raised,
                   summary, padYear, run, prev>>

\* write_trades_to_csv: header and rows written.  main returns.
WriteRows ==
    /\ pc = "write"
    /\ trades # <<>>
    /\ writable
    /\ fs' = [fs EXCEPT !.out = File(Written(trades, padYear))]
    /\ trades' = TradesAfterWrite(trades, padYear)
    /\ stdout' = Append(stdout, [ev |-> "wrote", n |-> Len(trades)])
    /\ exitCode' = 0
    /\ pc' = "done"
    /\ UNCHANGED callVars
    /\ UNCHANGED <<writable, verbose, pos, fieldnames, raised, summary,
                   padYear, run, prev>>

\* write_trades_to_csv: open() raises IOError; print(...); sys.exit(1)
WriteIOError ==
    /\ pc = "write"
    /\ trades # <<>>
    /\ ~writable
    /\ stdout' = Append(stdout, [ev |-> "error_writing"])
    /\ exitCode' = 1
    /\ pc' = "done"
    /\ UNCHANGED callVars
    /\ UNCHANGED <<fs, writable, verbose, trades, pos, fieldnames, raised,
                   summary, padYear, run, prev>>

\* except FileNotFoundError: print(...); sys.exit(1)
MainNotFound ==
    /\ pc = "except"
    /\ raised = "FileNotFoundError"
    /\ stdout' = Append(stdout, [ev |-> "error_not_found"])
    /\ exitCode' = 1
    /\ pc' = "done"
    /\ UNCHANGED callVars
    /\ UNCHANGED <<fs, writable, verbose, trades, pos, fieldnames, raised,
                   summary, padYear, run, prev>>

\* except Exception as e: print(...); sys.exit(1)
MainError ==
    /\ pc = "except"
    /\ raised # "FileNotFoundError"
    /\ stdout' = Append(stdout, [ev |-> "error_processing", exc |-> raised])
    /\ exitCode' = 1
    /\ pc' = "done"
    /\ UNCHANGED callVars
    /\ UNCHANGED <<fs, writable, verbose, trades, pos, fieldnames, raised,
                   summary, padYear, run, prev>>

\* what a finished run leaves for a later one to be compared with
Outcome ==
    [verbose |-> verbose, input |-> fs.in, trades |-> trades,
     summary |-> summary, stdout |-> stdout, out |-> fs.out,
     exitCode |-> exitCode, raised |-> raised]

Restart ==
    /\ pc' = "start"
    /\ trades' = <<>>
    /\ pos' = 0
    /\ fieldnames' = NotRead
    /\ raised' = NoExc
    /\ summary' = None
    /\ stdout' = <<>>
    /\ exitCode' = None

\* the program is started again on the same paths with -v switched
RunAgain ==
    /\ pc = "done"
    /\ run = "first"
    /\ prev' = Outcome
    /\ run' = "again"
    /\ verbose' = ~verbose
    /\ Restart
    /\ UNCHANGED callVars
    /\ UNCHANGED <<fs, writable, padYear>>

\* the program is started on the file it wrote, two blank lines put before it
RunOnOutput ==
    /\ pc = "done"
    /\ run = "first"
    /\ exitCode = 0
    /\ trades # <<>>
    /\ prev' = Outcome
    /\ run' = "reparse"
    /\ fs' = [fs EXCEPT !.in = File(Blank2 \o fs.out.lines)]
    /\ Restart
    /\ UNCHANGED callVars
    /\ UNCHANGED <<writable, verbose, padYear>>

Next ==
    \/ MainStart
    \/ ParseOpen
    \/ ParseOpenNotFound
    \/ ParseSkipLine
    \/ ParseSkipStop
    \/ ParseRowsEnd
    \/ ParseRowAppend
    \/ ParseRowBreak
    \/ ParseRowRaise
    \/ MainSummary
    \/ MainFound
    \/ WriteNoTrades
    \/ WriteRows
    \/ WriteIOError
    \/ MainNotFound
    \/ MainError
    \/ RunAgain
    \/ RunOnOutput

Spec == Init /\ [][Next]_vars

(***************************************************************************)
(* get_trade_action and get_trade_summary called on their own, on          *)
(* arguments the parser alone would not produce.                           *)
(***************************************************************************)
FragBought == <<"B","o","u","g","h","t">>
FragSold == <<"s","o","l","d">>
FragConversion == <<"C","O","N","V","E","R","S","I","O","N">>
FragBough == <<"B","O","U","G","H">>
FragT == <<"t">>
FragSol == <<"S","o","l">>
FragD == <<"d"," ">>
FragYou == <<"Y","o","u"," ">>
FragDividend == <<"D","i","v","i","d","e","n","d">>
FragPool == {FragBought, FragSold, FragConversion, FragBough, FragT, FragSol, FragD, FragYou, FragDividend}

RECURSIVE Concat(_)
Concat(ss) == IF ss = <<>> THEN <<>> ELSE Head(ss) \o Concat(Tail(ss))

\* action strings: up to MaxFrags fragments, one after the other
ActionTexts == {Concat(ss) : ss \in RowsUpTo(FragPool, MaxFrags)}

\* trade dictionaries that differ in action and symbol
RecordPool ==
    {TradeDict(Date(2024, 1, 2), a, sy, TextDescription, TextType,
               None, None, None, None) :
        a \in {Bought, Sold, Conversion, Upper(FragDividend), FragSold,
                FragBought \o FragSold},
        sy \in {<<"A","A","P","L">>, <<"M","S","F","T">>, <<>>}}

RecordLists == RowsUpTo(RecordPool, MaxRecs)

\* main is not running
Parked ==
    /\ fs = [in |-> NoFile, out |-> NoFile]
    /\ writable = FALSE
    /\ verbose = FALSE
    /\ padYear = TRUE
    /\ run = "first"
    /\ prev = None
    /\ trades = <<>>
    /\ pos = 0
    /\ fieldnames = NotRead
    /\ raised = NoExc
    /\ summary = None
    /\ stdout = <<>>
    /\ exitCode = None

InitAction ==
    /\ Parked
    /\ pc = "call"
    /\ actIn \in ActionTexts
    /\ actOut = None
    /\ sumIn = <<>>
    /\ sumOut = None

\* get_trade_action(action)
CallGetTradeAction ==
    /\ pc = "call"
    /\ actOut' = get_trade_action(actIn)
    /\ pc' = "returned"
    /\ UNCHANGED <<fs, writable, verbose, trades, pos, fieldnames, raised,
                   summary, stdout, exitCode, padYear, run, prev,
                   actIn, sumIn, sumOut>>

NextAction == CallGetTradeAction

SpecAction == InitAction /\ [][NextAction]_vars

InitSummary ==
    /\ Parked
    /\ pc = "call"
    /\ sumIn \in RecordLists
    /\ sumOut = None
    /\ actIn = <<>>
    /\ actOut = None

\* get_trade_summary(trades)
CallGetTradeSummary ==
    /\ pc = "call"
    /\ sumOut' = get_trade_summary(sumIn)
    /\ pc' = "returned"
    /\ UNCHANGED <<fs, writable, verbose, trades, pos, fieldnames, raised,
                   summary, stdout, exitCode, padYear, run, prev,
                   actIn, actOut, sumIn>>

NextSummary == CallGetTradeSummary

SpecSummary == InitSummary /\ [][NextSummary]_vars

(***************************************************************************)
(* Vocabulary of the properties.                                           *)
(***************************************************************************)
\* the call of parse_trade_data of this run has ended, by return or raise
ParseOver == pc \notin {"start", "open", "skip", "rows", "call", "returned"}

\* the header line of the input and the lines after it
HeaderLine == fs.in.lines[SkipLines + 1]
LinesAfterHeader == SubSeq(fs.in.lines, SkipLines + 2, Len(fs.in.lines))

\* the rows csv.DictReader yields: it passes over blank lines
NotBlankLine(r) == r # <<>>
SourceRows == SelectSeq(LinesAfterHeader, NotBlankLine)

\* the cell of a row under the column of the given name
HasCell(names, row, col) ==
    \E i \in 1..Len(names) : names[i] = col /\ i <= Len(row)
CellOf(names, row, col) ==
    row[CHOOSE i \in 1..Len(names) : names[i] = col]

RequiredCols == {ColRunDate, ColAction, ColSymbol, ColDescription, ColType,
                 ColQuantity, ColPrice, ColAmount, ColSettlementDate}
NumericCols == {ColQuantity, ColPrice, ColAmount}

IsBlank(text) == \A i \in 1..Len(text) : text[i] \in Whitespace
IsRealDate(text) == ~IsExc(strptime(Strip(text)))
IsNumber(text) == ~IsExc(float(text))

\* a valid row: a real MM/DD/YYYY Run Date of three parts, every required
\* column there, numbers blank or numeric, Settlement Date blank or a date
ValidRow(names, row) ==
    /\ \A c \in RequiredCols : HasCell(names, row, c)
    /\ ~IsBlank(CellOf(names, row, ColRunDate))
    /\ Len(Split(Strip(CellOf(names, row, ColRunDate)), "/")) = 3
    /\ IsRealDate(CellOf(names, row, ColRunDate))
    /\ \A c \in NumericCols :
          IsBlank(CellOf(names, row, c)) \/ IsNumber(CellOf(names, row, c))
    /\ \/ IsBlank(CellOf(names, row, ColSettlementDate))
       \/ IsRealDate(CellOf(names, row, ColSettlementDate))

\* the number of rows before the first invalid one
ValidPrefix(names, rows) ==
    CHOOSE n \in 0..Len(rows) :
        /\ \A i \in 1..n : ValidRow(names, rows[i])
        /\ n = Len(rows) \/ ~ValidRow(names, rows[n + 1])

\* C1: once parse_trade_data is over on a file that has a header line, it
\* has returned, and trades holds one record for each line of the longest
\* run of valid rows right after the header, in file order: its length is
\* the number of lines before the first invalid one.
C1_ValidPrefixReturned ==
    (ParseOver /\ fs.in.exists /\ Len(fs.in.lines) > SkipLines) =>
        /\ raised = NoExc
        /\ Len(trades) = ValidPrefix(HeaderLine, LinesAfterHeader)
        /\ \A i \in 1..Len(trades) :
              /\ trades[i].run_date =
                    strptime(Strip(CellOf(HeaderLine, LinesAfterHeader[i],
                                          ColRunDate))).ok
              /\ trades[i].symbol =
                    Strip(CellOf(HeaderLine, LinesAfterHeader[i], ColSymbol))

\* C2: once the header has been read, no data row makes parse_trade_data
\* raise: whatever the row holds, the loop ends and trades is returned.
C2_NoRaiseAfterHeader == fieldnames.read => raised = NoExc

\* the failures of the file-level regime: no input file, an input without
\* its two leading lines, an output that cannot be written
FileLevelFailure ==
    \/ ~fs.in.exists
    \/ Len(fs.in.lines) < SkipLines
    \/ trades # <<>> /\ ~writable

\* C3: the exit status is 1 exactly on a file-level failure and 0 otherwise;
\* what a data row holds never by itself makes it 1.
C3_ExitByRegime ==
    pc = "done" => exitCode = (IF FileLevelFailure THEN 1 ELSE 0)

OptionalFields ==
    {<<"quantity", ColQuantity>>, <<"price", ColPrice>>,
     <<"amount", ColAmount>>, <<"settlement_date", ColSettlementDate>>}

\* C4: in every record, an optional field is None exactly when its source
\* cell is blank (never 0.0 in its place), and the parse never stops at a
\* row whose only peculiarity is a blank optional cell: the row it stopped
\* at is invalid for another reason.
C4_BlankIsNone ==
    /\ \A i \in 1..Len(trades) : \A f \in OptionalFields :
          (trades[i][f[1]] = None)
              <=> IsBlank(CellOf(fieldnames.names, SourceRows[i], f[2]))
    /\ (ParseOver /\ fieldnames.read /\ Len(trades) < Len(SourceRows)) =>
          ~ValidRow(fieldnames.names, SourceRows[Len(trades) + 1])

\* a record with blank quantity and price was made, and the parse went on
C4_Witness ==
    /\ Len(trades) >= 2
    /\ trades[1].quantity = None
    /\ trades[1].price = None
    /\ trades[1].settlement_date = None
    /\ IsBlank(CellOf(fieldnames.names, SourceRows[1], ColQuantity))

\* kw occurs in s, letter case aside
CiContains(s, kw) ==
    \E i \in 0..(Len(s) - Len(kw)) :
        \A j \in 1..Len(kw) : UpperChar(s[i + j]) = kw[j]

\* C5: get_trade_action returns 'Bought' when the text holds BOUGHT in any
\* letter case (whatever else it holds), else 'Sold' when it holds SOLD,
\* else 'Conversion' when it holds CONVERSION, else the text upper-cased.
C5_ActionPriority ==
    pc = "returned" =>
        IF CiContains(actIn, BOUGHT) THEN actOut = Bought
        ELSE IF CiContains(actIn, SOLD) THEN actOut = Sold
        ELSE IF CiContains(actIn, CONVERSION) THEN actOut = Conversion
        ELSE /\ Len(actOut) = Len(actIn)
             /\ \A i \in 1..Len(actIn) : actOut[i] = UpperChar(actIn[i])

\* a text holding both BOUGHT and SOLD was normalized
C5_Witness ==
    /\ pc = "returned"
    /\ CiContains(actIn, BOUGHT)
    /\ CiContains(actIn, SOLD)
    /\ actOut = Bought

\* C6: get_trade_summary counts the records, those whose action holds
\* BOUGHT, those whose action holds SOLD (letter case aside) and the
\* distinct symbols (0 each for the empty list), and leaves its argument
\* as it was.
C6_SummaryCounts ==
    /\ [](pc = "returned" =>
            /\ sumOut.total_trades = Len(sumIn)
            /\ sumOut.total_buy_trades =
                  Cardinality({i \in 1..Len(sumIn) :
                                  CiContains(sumIn[i].action, BOUGHT)})
            /\ sumOut.total_sell_trades =
                  Cardinality({i \in 1..Len(sumIn) :
                                  CiContains(sumIn[i].action, SOLD)})
            /\ sumOut.unique_symbols =
                  Cardinality({i \in 1..Len(sumIn) :
                                  \A j \in 1..(i - 1) :
                                      sumIn[j].symbol # sumIn[i].symbol})
            /\ sumIn = <<>> =>
                  sumOut = [total_trades |-> 0, total_buy_trades |-> 0,
                            total_sell_trades |-> 0, unique_symbols |-> 0])
    /\ [][sumIn' = sumIn]_vars

\* two records with the same symbol, one of them a purchase, were summarized
C6_Witness ==
    /\ pc = "returned"
    /\ Len(sumIn) = 2
    /\ sumIn[1].symbol = sumIn[2].symbol
    /\ sumOut.unique_symbols = 1
    /\ sumOut.total_buy_trades = 1
    /\ sumOut.total_sell_trades = 1

\* a date as MM/DD/YYYY
TwoDigits(n) == <<Digits[(n \div 10) + 1], Digits[(n % 10) + 1]>>
FourDigits(n) == TwoDigits(n \div 100) \o TwoDigits(n % 100)
MMDDYYYY(date) ==
    TwoDigits(Month(date)) \o <<"/">> \o TwoDigits(Day(date)) \o <<"/">>
        \o FourDigits(Year(date))

\* the row of the output file a record is to become
ExpectedCells(t) ==
    <<MMDDYYYY(t.run_date), NatStr(t.run_month), NatStr(t.run_year),
      t.action, t.symbol, t.description, t.type,
      IF t.quantity = None THEN <<>> ELSE repr(t.quantity),
      IF t.price = None THEN <<>> ELSE repr(t.price),
      IF t.amount = None THEN <<>> ELSE repr(t.amount),
      IF t.settlement_date = None THEN <<>> ELSE MMDDYYYY(t.settlement_date)>>

ExpectedFile(ts) ==
    <<[i \in 1..Len(Keys) |-> KeyText(Keys[i])]>>
        \o [n \in 1..Len(ts) |-> ExpectedCells(ts[n])]

\* C7: write_trades_to_csv leaves the file system alone and does not exit
\* when there is no record; otherwise what it writes is the header of the
\* first record's keys and one row per record in order, dates as
\* MM/DD/YYYY and None as an empty cell, and the caller's records stay as
\* they were.
C7_WriterContract ==
    [][(pc = "write" /\ pc' = "done") =>
          IF trades = <<>> THEN fs' = fs /\ exitCode' = 0
          ELSE writable => /\ fs'.out = File(ExpectedFile(trades))
                           /\ trades' = trades]_vars

\* the fields in which two records are to agree after a round trip
SameRecord(a, b) ==
    /\ a.run_date = b.run_date
    /\ a.quantity = b.quantity
    /\ a.price = b.price
    /\ a.amount = b.amount
    /\ a.settlement_date = b.settlement_date

\* C8 as first stated: the file written from the records of f, parsed again
\* behind two leading lines, gives the records of f back.
C8_RoundTrip ==
    (run = "reparse" /\ ParseOver) =>
        /\ raised = NoExc
        /\ Len(trades) = Len(prev.trades)
        /\ \A i \in 1..Len(trades) : SameRecord(trades[i], prev.trades[i])

\* C8, amended: the file written from the records of f, parsed again behind
\* two leading lines, gives no record at all: its header names the keys of
\* a record (run_date, ...), not the columns the parser reads ('Run Date',
\* ...), so the first row ends the parse, which returns the empty list.
C8_ReparseIsEmpty ==
    (run = "reparse" /\ ParseOver) =>
        /\ raised = NoExc
        /\ trades = <<>>
        /\ Len(prev.trades) >= 1

\* the written file of a two-record parse has been parsed again
C8_Witness ==
    /\ run = "reparse"
    /\ pc = "parsed"
    /\ Len(prev.trades) = 2
    /\ Len(fs.in.lines) = SkipLines + 3

\* what is printed apart from the progress lines of -v
NotProgress(e) == e.ev \notin {"reading", "found"}
Quiet(out) == SelectSeq(out, NotProgress)

WriteEvents == {"no_trades", "wrote", "error_writing"}

\* C9: the summary is printed with or without -v, after the parse and
\* before the write is attempted; and a second run on the same paths with
\* -v switched ends with the same records, summary, output file and exit
\* status, and prints the same apart from the progress lines.
C9_VerbosityOnlyProgress ==
    /\ pc \in {"start", "open", "skip", "rows", "parsed", "except"} =>
          \A i \in 1..Len(stdout) : stdout[i].ev # "summary"
    /\ pc \in {"found", "write"} =>
          /\ \E i \in 1..Len(stdout) :
                stdout[i] = [ev |-> "summary", val |-> summary]
          /\ \A i \in 1..Len(stdout) : stdout[i].ev \notin WriteEvents
    /\ (run = "again" /\ pc = "done") =>
          /\ verbose # prev.verbose
          /\ trades = prev.trades
          /\ raised = prev.raised
          /\ raised = NoExc => summary = prev.summary
          /\ fs.out = prev.out
          /\ exitCode = prev.exitCode
          /\ Quiet(stdout) = Quiet(prev.stdout)

\* a quiet run and then a verbose one have both written two records
C9_Witness ==
    /\ run = "again"
    /\ pc = "done"
    /\ verbose
    /\ exitCode = 0
    /\ Len(trades) = 2
    /\ Len(stdout) = Len(prev.stdout) + 2

\* the text of a cell starts, blanks aside, with a minus sign
HasMinus(text) == Strip(text) # <<>> /\ Strip(text)[1] = "-"

SameMagnitude(f, g) == Num(f) = Num(g) /\ Exp(f) = Exp(g)

\* C10: in every record quantity and amount are None or the absolute value
\* of the source cell, so never negative; price keeps the sign of its
\* source cell; run_month and run_year are those of run_date.
C10_AbsAndDerived ==
    \A i \in 1..Len(trades) :
        /\ \A f \in {<<"quantity", ColQuantity>>, <<"amount", ColAmount>>} :
              \/ trades[i][f[1]] = None
              \/ /\ ~Neg(trades[i][f[1]])
                 /\ SameMagnitude(trades[i][f[1]],
                       float(CellOf(fieldnames.names, SourceRows[i], f[2])).ok)
        /\ \/ trades[i].price = None
           \/ /\ Neg(trades[i].price)
                    <=> HasMinus(CellOf(fieldnames.names, SourceRows[i], ColPrice))
              /\ SameMagnitude(trades[i].price,
                    float(CellOf(fieldnames.names, SourceRows[i], ColPrice)).ok)
        /\ trades[i].run_month = Month(trades[i].run_date)
        /\ trades[i].run_year = Year(trades[i].run_date)

\* a record was made of a row with a negative quantity and a negative price
C10_Witness ==
    \E i \in 1..Len(trades) :
        /\ HasMinus(CellOf(fieldnames.names, SourceRows[i], ColQuantity))
        /\ HasMinus(CellOf(fieldnames.names, SourceRows[i], ColPrice))
        /\ ~Neg(trades[i].quantity)
        /\ Neg(trades[i].price)

=============================================================================
